---- MODULE Spec2Model ----
(***************************************************************************)
(* Model of the go-errors package: the Error value, its constructors       *)
(* (New, Wrap, Violations, DefaultError), its methods (Error, Unwrap, Is), *)
(* the stack capture helper and the predefined catalog.                    *)
(*                                                                         *)
(* The repository carries two variants of the constructors:                *)
(*   "eager"  src/error.go          catalog entries are package variables  *)
(*                                  built by New during package init;      *)
(*   "lazy"   src/unnamed/part_001  catalog entries are factory functions. *)
(* The variable build says which variant the program was built from.       *)
(*                                                                         *)
(* Memory is a heap of Error structs addressed by pointers; 0 is the nil   *)
(* pointer.  A Go slice is [isNil, elems]; a Go error interface value is   *)
(* [dyn, ref]: its dynamic type and its dynamic value.                     *)
(***************************************************************************)
EXTENDS Integers, Sequences, FiniteSets, TLC

VARIABLES build, heap, made, ret, th, race

vars == <<build, heap, made, ret, th, race>>

----------------------------------------------------------------------------
(* Bounds of the model *)

\* number of Error structs the callers may allocate after package init
MaxAlloc == 2

\* number of concurrent callers (goroutines) in ConcSpec
NumThreads == 2

Threads == 1 .. NumThreads

----------------------------------------------------------------------------
(* Go values *)

NilPtr == 0

\* a slice: nil, or a (possibly empty) sequence of elements
NilSlice == [isNil |-> TRUE, elems |-> <<>>]

MakeSlice(s) == [isNil |-> FALSE, elems |-> s]

SliceLen(s) == Len(s.elems)

\* append(dst, src...): a nil dst stays nil when nothing is appended
AppendAll(dst, src) ==
    IF dst.isNil /\ src = <<>> THEN NilSlice ELSE MakeSlice(dst.elems \o src)

\* the error interface: the nil interface, a *Error (whose pointer may be
\* nil), or an error of another package ("opaque")
NilErr == [dyn |-> "nil", ref |-> 0]

ErrorPtr(a) == [dyn |-> "*Error", ref |-> a]

\* opaque errors: pointer-typed ones as built by fmt.Errorf (1 and 2 carry the
\* same text), and ones of a slice type, which Go cannot compare with ==
OpaqueErrors ==
    { [dyn |-> "*fmt.wrapError", ref |-> 1],
      [dyn |-> "*fmt.wrapError", ref |-> 2],
      [dyn |-> "sliceError", ref |-> 1] }

\* x.Error() of an opaque error
OpaqueText(x) ==
    IF x.dyn = "*fmt.wrapError" THEN "db down" ELSE "invalid input"

\* whether == is defined on values of the dynamic type
Comparable(dyn) == dyn # "sliceError"

\* x == y on interface values: equal dynamic types and equal dynamic values;
\* a run-time panic when both hold the same uncomparable type
InterfaceEq(x, y) ==
    IF x.dyn = y.dyn /\ ~Comparable(x.dyn)
    THEN [panic |-> TRUE, val |-> FALSE]
    ELSE [panic |-> FALSE, val |-> (x = y)]

ViolationErrorTypeRequired == "REQUIRED"

ViolationErrorTypeEmail == "EMAIL"

ValidationError(type, field, message) ==
    [Type |-> type, Field |-> field, Message |-> message]

ErrorStruct(type, code, message, violations, err, stackTraces) ==
    [Type |-> type, Code |-> code, Message |-> message,
     Violations |-> violations, Err |-> err, StackTraces |-> stackTraces]

\* &Error{...}: the address of a new struct
Alloc(h) == Cardinality(DOMAIN h) + 1

Store(h, a, e) == [x \in DOMAIN h \cup {a} |-> IF x = a THEN e ELSE h[x]]

----------------------------------------------------------------------------
(* Call stacks and stack capture *)

Frame(pkg, fn) == [pkg |-> pkg, fn |-> fn]

RECURSIVE Take(_, _)
Take(s, n) == IF n = 0 \/ s = <<>> THEN <<>> ELSE <<Head(s)>> \o Take(Tail(s), n - 1)

RECURSIVE Drop(_, _)
Drop(s, n) == IF n = 0 \/ s = <<>> THEN s ELSE Drop(Tail(s), n - 1)

RECURSIVE SelectLines(_)
\* the loop of captureStackTrace in error.go: keep the lines that are not
\* empty after trimming
SelectLines(lines) ==
    IF lines = <<>> THEN <<>>
    ELSE IF Head(lines).kind # "empty"
         THEN <<Head(lines)>> \o SelectLines(Tail(lines))
         ELSE SelectLines(Tail(lines))

RECURSIVE StackText(_)
\* runtime.Stack prints two lines for each frame of the goroutine
StackText(stack) ==
    IF stack = <<>> THEN <<[kind |-> "empty", frame |-> Frame("", "")]>>
    ELSE << [kind |-> "func", frame |-> Head(stack)],
            [kind |-> "file", frame |-> Head(stack)] >> \o StackText(Tail(stack))

\* error.go: the whole stack of the goroutine, its header line first, the
\* frames of captureStackTrace and of the constructor included.  stack is the
\* goroutine's stack at the call, innermost frame first.  (The stacks of the
\* model are far shorter than the 4096 byte buffer.)
captureStackTrace(stack) ==
    MakeSlice(SelectLines(
        <<[kind |-> "goroutine", frame |-> Frame("", "")]>> \o StackText(stack)))

maxFrames == 32

isRelevantFrame(frame) == frame.pkg \notin {"runtime", "testing"}

RECURSIVE FormatFrames(_)
FormatFrames(frames) ==
    IF frames = <<>> THEN <<>>
    ELSE IF isRelevantFrame(Head(frames))
         THEN <<[kind |-> "frame", frame |-> Head(frames)]>> \o FormatFrames(Tail(frames))
         ELSE FormatFrames(Tail(frames))

\* part_001: runtime.Callers(skip+2) leaves out its own frame, the frame of
\* captureStackTrace and skip frames more.  stack starts with the frame of
\* runtime.Callers.
captureStackTraceSkip(skip, stack) ==
    LET pcs == Take(Drop(stack, skip + 2), maxFrames)
    IN  IF Len(pcs) = 0 THEN MakeSlice(<<>>) ELSE MakeSlice(FormatFrames(pcs))

\* the stack seen inside captureStackTrace when constructor fn of part_001
\* was called from caller
LazyStack(fn, caller) ==
    <<Frame("runtime", "Callers"), Frame("errors", "captureStackTrace"),
      Frame("errors", fn)>> \o caller

----------------------------------------------------------------------------
(* Methods of *Error (part_000) *)

RECURSIVE Error(_, _)
\* func (e *Error) Error() string; an interface call on a cause dispatches
\* on its dynamic type
Error(h, e) ==
    IF e = NilPtr THEN [panic |-> FALSE, str |-> ""]
    ELSE IF h[e].Err # NilErr
         THEN IF h[e].Err.dyn = "*Error"
              THEN Error(h, h[e].Err.ref)
              ELSE [panic |-> FALSE, str |-> OpaqueText(h[e].Err)]
         ELSE [panic |-> FALSE, str |-> h[e].Message]

\* Unwrap without its nil check: e.Err read through a nil pointer
UnwrapNoNilCheck(h, e) ==
    IF e = NilPtr THEN [panic |-> TRUE, err |-> NilErr]
    ELSE [panic |-> FALSE, err |-> h[e].Err]

\* func (e *Error) Unwrap() error
Unwrap(h, e) ==
    IF e = NilPtr THEN [panic |-> FALSE, err |-> NilErr]
    ELSE [panic |-> FALSE, err |-> h[e].Err]

\* Is comparing the code next to the kind
IsComparesCode(h, e, target) ==
    IF e = NilPtr THEN [panic |-> FALSE, val |-> (target = NilErr)]
    ELSE IF target.dyn = "*Error"
         THEN IF target.ref = NilPtr
              THEN [panic |-> TRUE, val |-> FALSE]
              ELSE [panic |-> FALSE,
                    val |-> (h[e].Type = h[target.ref].Type
                             /\ h[e].Code = h[target.ref].Code)]
         ELSE IF h[e].Err # NilErr
              THEN InterfaceEq(h[e].Err, target)
              ELSE [panic |-> FALSE, val |-> FALSE]

\* func (e *Error) Is(target error) bool; reading targetErr.Type through a
\* nil pointer panics
Is(h, e, target) ==
    IF e = NilPtr THEN [panic |-> FALSE, val |-> (target = NilErr)]
    ELSE IF target.dyn = "*Error"
         THEN IF target.ref = NilPtr
              THEN [panic |-> TRUE, val |-> FALSE]
              ELSE [panic |-> FALSE, val |-> (h[e].Type = h[target.ref].Type)]
         ELSE IF h[e].Err # NilErr
              THEN InterfaceEq(h[e].Err, target)
              ELSE [panic |-> FALSE, val |-> FALSE]

----------------------------------------------------------------------------
(* Constructors of error.go.  Each yields the heap after the call and the   *)
(* pointer it returns.                                                      *)

\* New leaving Violations nil
NewNilViolations(h, code, message, errorType, caller) ==
    LET a == Alloc(h)
        e == ErrorStruct(errorType, code, message, NilSlice, NilErr,
                         captureStackTrace(
                             <<Frame("errors", "captureStackTrace"),
                               Frame("errors", "New")>> \o caller))
    IN  [heap |-> Store(h, a, e), ret |-> a]

New(h, code, message, errorType, caller) ==
    LET a  == Alloc(h)
        e0 == ErrorStruct(errorType, code, message, MakeSlice(<<>>), NilErr,
                          MakeSlice(<<>>))
        st == captureStackTrace(
                  <<Frame("errors", "captureStackTrace"), Frame("errors", "New")>>
                  \o caller)
        e1 == IF SliceLen(e0.StackTraces) = 0
              THEN [e0 EXCEPT !.StackTraces = AppendAll(@, st.elems)]
              ELSE e0
    IN  [heap |-> Store(h, a, e1), ret |-> a]

DefaultError(h, caller) ==
    LET a == Alloc(h)
        e == ErrorStruct("INTERNAL_SERVER_ERROR", 500,
                         "An internal server error occurred", MakeSlice(<<>>),
                         NilErr,
                         captureStackTrace(
                             <<Frame("errors", "captureStackTrace"),
                               Frame("errors", "DefaultError")>> \o caller))
    IN  [heap |-> Store(h, a, e), ret |-> a]

\* Wrap forgetting e.Err = err
WrapDropsCause(h, err, caller) ==
    DefaultError(h, <<Frame("errors", "Wrap")>> \o caller)

Wrap(h, err, caller) ==
    LET d  == DefaultError(h, <<Frame("errors", "Wrap")>> \o caller)
        e  == d.ret
        h1 == [d.heap EXCEPT ![e].Err = err]
        h2 == IF SliceLen(h1[e].StackTraces) = 0
              THEN [h1 EXCEPT ![e].StackTraces =
                        captureStackTrace(
                            <<Frame("errors", "captureStackTrace"),
                              Frame("errors", "Wrap")>> \o caller)]
              ELSE h1
    IN  [heap |-> h2, ret |-> e]

\* the package variables of error.go:95-102 hold the pointers that New
\* returned during package initialisation, in declaration order
ErrorBadRequest == 1

ErrorUnauthorized == 2

ErrorForbidden == 3

ErrorNotFound == 4

ErrorConflict == 5

ErrorUnprocessableEntity == 6

ErrorInternalServerError == 7

ErrorPanic == 8

\* Violations appending to the issues of the package variable
ViolationsAssignAppends(h, violations) ==
    [h EXCEPT ![ErrorUnprocessableEntity].Violations = AppendAll(@, violations.elems)]

\* e := ErrorUnprocessableEntity; e.Violations = violations
ViolationsAssign(h, violations) ==
    [h EXCEPT ![ErrorUnprocessableEntity].Violations = violations]

\* if len(e.StackTraces) == 0 { e.StackTraces = captureStackTrace() }
ViolationsCapture(h, caller) ==
    LET e == ErrorUnprocessableEntity
    IN  IF SliceLen(h[e].StackTraces) = 0
        THEN [h EXCEPT ![e].StackTraces =
                  captureStackTrace(
                      <<Frame("errors", "captureStackTrace"),
                        Frame("errors", "Violations")>> \o caller)]
        ELSE h

Violations(h, violations, caller) ==
    [heap |-> ViolationsCapture(ViolationsAssign(h, violations), caller),
     ret |-> ErrorUnprocessableEntity]

\* the arguments of the New calls that initialise the package variables
CatalogArgs ==
    << [Code |-> 400, Message |-> "Bad request", Type |-> "BAD_REQUEST"],
       [Code |-> 401, Message |-> "Unauthorized", Type |-> "UNAUTHORIZED"],
       [Code |-> 403, Message |-> "Forbidden", Type |-> "FORBIDDEN"],
       [Code |-> 404, Message |-> "Not found", Type |-> "NOT_FOUND"],
       [Code |-> 409, Message |-> "Conflict", Type |-> "CONFLICT"],
       [Code |-> 422, Message |-> "Unprocessable entity", Type |-> "UNPROCESSABLE_ENTITY"],
       [Code |-> 500, Message |-> "Internal server error", Type |-> "INTERNAL_SERVER_ERROR"],
       [Code |-> 500, Message |-> "Panic", Type |-> "PANIC"] >>

\* the stack of the goroutine that runs package initialisation
InitStack ==
    <<Frame("errors", "init"), Frame("runtime", "doInit"), Frame("runtime", "main")>>

RECURSIVE InitCatalog(_, _)
\* the heap after the first i variables were initialised
InitCatalog(h, i) ==
    IF i = 0 THEN h
    ELSE New(InitCatalog(h, i - 1), CatalogArgs[i].Code, CatalogArgs[i].Message,
             CatalogArgs[i].Type, InitStack).heap

EmptyHeap == [x \in {} |-> 0]

PackageInit == InitCatalog(EmptyHeap, Len(CatalogArgs))

----------------------------------------------------------------------------
(* Constructors of part_001 *)

NewLazy(h, code, message, errorType, caller) ==
    LET a  == Alloc(h)
        e0 == ErrorStruct(errorType, code, message, MakeSlice(<<>>), NilErr,
                          MakeSlice(<<>>))
        st == captureStackTraceSkip(1, LazyStack("New", caller))
        e1 == IF SliceLen(e0.StackTraces) = 0
              THEN [e0 EXCEPT !.StackTraces = AppendAll(@, st.elems)]
              ELSE e0
    IN  [heap |-> Store(h, a, e1), ret |-> a]

WrapLazy(h, err, caller) ==
    LET a == Alloc(h)
        e == ErrorStruct("INTERNAL_SERVER_ERROR", 500,
                         "An internal server error occurred", MakeSlice(<<>>), err,
                         captureStackTraceSkip(1, LazyStack("Wrap", caller)))
    IN  [heap |-> Store(h, a, e), ret |-> a]

ViolationsLazy(h, violations, caller) ==
    LET a == Alloc(h)
        e == ErrorStruct("UNPROCESSABLE_ENTITY", 422, "Unprocessable entity",
                         violations, NilErr,
                         captureStackTraceSkip(1, LazyStack("Violations", caller)))
    IN  [heap |-> Store(h, a, e), ret |-> a]

DefaultErrorLazy(h, caller) ==
    LET a == Alloc(h)
        e == ErrorStruct("INTERNAL_SERVER_ERROR", 500,
                         "An internal server error occurred", MakeSlice(<<>>), NilErr,
                         captureStackTraceSkip(1, LazyStack("DefaultError", caller)))
    IN  [heap |-> Store(h, a, e), ret |-> a]

\* the eight factory functions ErrorBadRequest() .. ErrorPanic()
FactoryFields ==
    << [fn |-> "ErrorBadRequest", Type |-> "BAD_REQUEST", Code |-> 400, Message |-> "Bad request"],
       [fn |-> "ErrorUnauthorized", Type |-> "UNAUTHORIZED", Code |-> 401, Message |-> "Unauthorized"],
       [fn |-> "ErrorForbidden", Type |-> "FORBIDDEN", Code |-> 403, Message |-> "Forbidden"],
       [fn |-> "ErrorNotFound", Type |-> "NOT_FOUND", Code |-> 404, Message |-> "Not found"],
       [fn |-> "ErrorConflict", Type |-> "CONFLICT", Code |-> 409, Message |-> "Conflict"],
       [fn |-> "ErrorUnprocessableEntity", Type |-> "UNPROCESSABLE_ENTITY", Code |-> 422, Message |-> "Unprocessable entity"],
       [fn |-> "ErrorInternalServerError", Type |-> "INTERNAL_SERVER_ERROR", Code |-> 500, Message |-> "Internal server error"],
       [fn |-> "ErrorPanic", Type |-> "PANIC", Code |-> 500, Message |-> "Panic"] >>

CatalogFactory(h, i, caller) ==
    LET a == Alloc(h)
        f == FactoryFields[i]
        e == ErrorStruct(f.Type, f.Code, f.Message, MakeSlice(<<>>), NilErr,
                         captureStackTraceSkip(1, LazyStack(f.fn, caller)))
    IN  [heap |-> Store(h, a, e), ret |-> a]

----------------------------------------------------------------------------
(* Serialisation: encoding/json applied to the struct declaration of        *)
(* part_000:11-18                                                           *)

\* a struct tag `json:"name,omitempty"`, or `json:"-"`; no tag is NoTag
NoTag == [name |-> "", omitempty |-> FALSE, skip |-> FALSE]

\* the fields of Error with their struct tags; the declaration has none
ErrorFields ==
    << [field |-> "Type", tag |-> NoTag],
       [field |-> "Code", tag |-> NoTag],
       [field |-> "Message", tag |-> NoTag],
       [field |-> "Violations", tag |-> NoTag],
       [field |-> "Err", tag |-> NoTag],
       [field |-> "StackTraces", tag |-> NoTag] >>

\* encoding/json: the key of a field is the name in its tag, else the name
\* of the field
TagName(f) == IF f.tag.name = "" THEN f.field ELSE f.tag.name

TagOmitEmpty(f) == f.tag.omitempty

TagSkip(f) == f.tag.skip

\* encoding/json's isEmptyValue on a field of the struct
IsEmptyValue(obj, field) ==
    CASE field = "Type" -> obj.Type = ""
      [] field = "Code" -> obj.Code = 0
      [] field = "Message" -> obj.Message = ""
      [] field = "Violations" -> SliceLen(obj.Violations) = 0
      [] field = "Err" -> obj.Err = NilErr
      [] field = "StackTraces" -> SliceLen(obj.StackTraces) = 0

\* json.Marshal(e): the keys of the object written, each with the field it
\* is taken from
Marshal(h, e) ==
    IF e = NilPtr THEN {}
    ELSE { [key |-> TagName(ErrorFields[i]), field |-> ErrorFields[i].field] :
             i \in { j \in 1 .. Len(ErrorFields) :
                       /\ ~TagSkip(ErrorFields[j])
                       /\ ~(TagOmitEmpty(ErrorFields[j])
                            /\ IsEmptyValue(h[e], ErrorFields[j].field)) } }

----------------------------------------------------------------------------
(* Inputs *)

\* the (code, message, errorType) arguments of New
NewArgs ==
    { [Code |-> 404, Message |-> "Not found", Type |-> "NOT_FOUND"],
      [Code |-> 410, Message |-> "Gone", Type |-> "NOT_FOUND"],
      [Code |-> 400, Message |-> "Bad request", Type |-> "BAD_REQUEST"] }

\* the stacks of the goroutines that call the package, innermost frame first
Handler ==
    <<Frame("main", "handler"), Frame("main", "main"), Frame("runtime", "main")>>

TestCase ==
    <<Frame("errors", "TestErrorInterface"), Frame("testing", "tRunner"),
      Frame("runtime", "goexit")>>

Callers == {Handler, TestCase}

V1 == ValidationError(ViolationErrorTypeRequired, "email", "Email is required")

V2 == ValidationError(ViolationErrorTypeEmail, "email", "Invalid email format")

IssueLists == {NilSlice, MakeSlice(<<>>), MakeSlice(<<V1, V2>>)}

CatalogSize == IF build = "eager" THEN Len(CatalogArgs) ELSE 0

\* the Errors built by the callers after package initialisation
Fresh(h) == {a \in DOMAIN h : a > CatalogSize}

\* the causes given to Wrap: nil, opaque errors, a nil *Error, an Error built
\* by a caller before and (error.go) a catalog variable
WrapCauses(h) ==
    { NilErr, [dyn |-> "*fmt.wrapError", ref |-> 1], [dyn |-> "sliceError", ref |-> 1],
      ErrorPtr(NilPtr) }
        \cup {ErrorPtr(a) : a \in Fresh(h)}
        \cup (IF build = "eager" THEN {ErrorPtr(ErrorNotFound)} ELSE {})

\* the targets given to Is
StructuredTargets(h) == {ErrorPtr(a) : a \in DOMAIN h}

OtherTargets == {NilErr} \cup OpaqueErrors

Targets(h) == StructuredTargets(h) \cup {ErrorPtr(NilPtr)} \cup OtherTargets

----------------------------------------------------------------------------
(* State *)

\* made[a]: the constructor call that last returned the pointer a
Call(op, args, cause, issues, caller) ==
    [op |-> op, code |-> args.Code, message |-> args.Message, kind |-> args.Type,
     cause |-> cause, issues |-> issues, caller |-> caller]

NoArgs == [Code |-> 0, Message |-> "", Type |-> ""]

Idle ==
    [pc |-> "idle", call |-> Call("", NoArgs, NilErr, NilSlice, <<>>), e |-> NilPtr,
     got |-> ErrorStruct("", 0, "", NilSlice, NilErr, NilSlice), acc |-> {}]

CanAlloc == Cardinality(DOMAIN heap) < CatalogSize + MaxAlloc

Init ==
    /\ build \in {"eager", "lazy"}
    /\ heap = IF build = "eager" THEN PackageInit ELSE EmptyHeap
    /\ made = [a \in DOMAIN heap |-> Call("New", CatalogArgs[a], NilErr, NilSlice, InitStack)]
    /\ ret = NilPtr
    /\ th = [t \in Threads |-> Idle]
    /\ race = FALSE

\* the constructor named by a call, of the variant the program was built from
Construct(h, c) ==
    LET args == [Code |-> c.code, Message |-> c.message, Type |-> c.kind]
    IN  CASE c.op = "New" ->
                 IF build = "eager"
                 THEN New(h, c.code, c.message, c.kind, c.caller)
                 ELSE NewLazy(h, c.code, c.message, c.kind, c.caller)
          [] c.op = "Wrap" ->
                 IF build = "eager" THEN Wrap(h, c.cause, c.caller)
                 ELSE WrapLazy(h, c.cause, c.caller)
          [] c.op = "Violations" ->
                 IF build = "eager" THEN Violations(h, c.issues, c.caller)
                 ELSE ViolationsLazy(h, c.issues, c.caller)
          [] c.op = "DefaultError" ->
                 IF build = "eager" THEN DefaultError(h, c.caller)
                 ELSE DefaultErrorLazy(h, c.caller)

\* the state after a sequential caller's call c returned r
Returned(c, r) ==
    /\ heap' = r.heap
    /\ made' = [a \in DOMAIN r.heap |-> IF a = r.ret THEN c ELSE made[a]]
    /\ ret' = r.ret
    /\ UNCHANGED <<build, th, race>>

----------------------------------------------------------------------------
(* Sequential callers: every call is one action *)

CallNew ==
    \E args \in NewArgs, caller \in Callers :
        /\ CanAlloc
        /\ LET c == Call("New", args, NilErr, NilSlice, caller)
           IN  Returned(c, Construct(heap, c))

CallWrap ==
    \E cause \in WrapCauses(heap), caller \in Callers :
        /\ CanAlloc
        /\ LET c == Call("Wrap", NoArgs, cause, NilSlice, caller)
           IN  Returned(c, Construct(heap, c))

CallViolations ==
    \E issues \in IssueLists, caller \in Callers :
        /\ build = "lazy" => CanAlloc
        /\ LET c == Call("Violations", NoArgs, NilErr, issues, caller)
           IN  Returned(c, Construct(heap, c))

CallDefaultError ==
    \E caller \in Callers :
        /\ CanAlloc
        /\ LET c == Call("DefaultError", NoArgs, NilErr, NilSlice, caller)
           IN  Returned(c, Construct(heap, c))

\* part_001 only: a call of one of the factory functions
CallFactory ==
    \E i \in 1 .. Len(FactoryFields) :
        /\ build = "lazy"
        /\ CanAlloc
        /\ LET f == FactoryFields[i]
               c == Call(f.fn, [Code |-> f.Code, Message |-> f.Message, Type |-> f.Type],
                         NilErr, NilSlice, Handler)
           IN  Returned(c, CatalogFactory(heap, i, Handler))

Next ==
    \/ CallNew
    \/ CallWrap
    \/ CallViolations
    \/ CallDefaultError
    \/ CallFactory

Spec == Init /\ [][Next]_vars

----------------------------------------------------------------------------
(* Concurrent callers: goroutines call the constructors with no             *)
(* synchronisation.  A constructor that builds a new struct touches memory  *)
(* no other goroutine can reach before it returns and is one step;          *)
(* Violations of error.go works on the struct of a package variable and is  *)
(* one step for each of its statements.  th[t].acc holds the accesses of    *)
(* the call in progress to memory that existed before the call.             *)

ConcCalls ==
    { Call("Violations", NoArgs, NilErr, MakeSlice(<<V1>>), Handler),
      Call("Violations", NoArgs, NilErr, MakeSlice(<<V1, V2>>), Handler),
      Call("Wrap", NoArgs, [dyn |-> "*fmt.wrapError", ref |-> 1], NilSlice, Handler),
      Call("New", [Code |-> 404, Message |-> "Not found", Type |-> "NOT_FOUND"],
           NilErr, NilSlice, Handler),
      Call("DefaultError", NoArgs, NilErr, NilSlice, Handler) }

Allocates(c) == ~(build = "eager" /\ c.op = "Violations")

\* structs that calls in progress are still to allocate
Reserved == Cardinality({t \in Threads : th[t].pc = "running" /\ Allocates(th[t].call)})

Access(addr, field, w) == [addr |-> addr, field |-> field, w |-> w]

\* an access of goroutine t conflicts with one of a call in progress on
\* another goroutine: same location, at least one of the two a write
Conflict(t, accs) ==
    \E u \in Threads \ {t} :
        /\ th[u].pc # "idle"
        /\ \E x \in th[u].acc, y \in accs :
               x.addr = y.addr /\ x.field = y.field /\ (x.w \/ y.w)

TBegin(t) ==
    \E c \in ConcCalls :
        /\ th[t].pc = "idle"
        /\ Allocates(c) => Cardinality(DOMAIN heap) + Reserved < CatalogSize + MaxAlloc
        /\ th' = [th EXCEPT ![t] = [Idle EXCEPT !.pc = "running", !.call = c]]
        /\ UNCHANGED <<build, heap, made, ret, race>>

TConstruct(t) ==
    /\ th[t].pc = "running"
    /\ Allocates(th[t].call)
    /\ LET r == Construct(heap, th[t].call)
       IN  /\ heap' = r.heap
           /\ th' = [th EXCEPT ![t].pc = "done", ![t].e = r.ret]
    /\ UNCHANGED <<build, made, ret, race>>

\* error.go:58-59
TViolationsAssign(t) ==
    /\ th[t].pc = "running"
    /\ ~Allocates(th[t].call)
    /\ LET accs == {Access(ErrorUnprocessableEntity, "Violations", TRUE)}
       IN  /\ heap' = ViolationsAssign(heap, th[t].call.issues)
           /\ race' = (race \/ Conflict(t, accs))
           /\ th' = [th EXCEPT ![t].pc = "assigned", ![t].e = ErrorUnprocessableEntity,
                                ![t].acc = @ \cup accs]
    /\ UNCHANGED <<build, made, ret>>

\* error.go:61-63
TViolationsCapture(t) ==
    /\ th[t].pc = "assigned"
    /\ LET e    == ErrorUnprocessableEntity
           accs == {Access(e, "StackTraces", FALSE)}
                       \cup (IF SliceLen(heap[e].StackTraces) = 0
                             THEN {Access(e, "StackTraces", TRUE)} ELSE {})
       IN  /\ heap' = ViolationsCapture(heap, th[t].call.caller)
           /\ race' = (race \/ Conflict(t, accs))
           /\ th' = [th EXCEPT ![t].pc = "done", ![t].acc = @ \cup accs]
    /\ UNCHANGED <<build, made, ret>>

\* the call returns; got is the struct the caller finds behind the pointer
TReturn(t) ==
    /\ th[t].pc = "done"
    /\ th' = [th EXCEPT ![t].pc = "idle", ![t].got = heap[th[t].e], ![t].acc = {}]
    /\ made' = [a \in DOMAIN heap |-> IF a = th[t].e \/ a \notin DOMAIN made
                                      THEN th[t].call ELSE made[a]]
    /\ ret' = th[t].e
    /\ UNCHANGED <<build, heap, race>>

ConcNext ==
    \E t \in Threads :
        \/ TBegin(t)
        \/ TConstruct(t)
        \/ TViolationsAssign(t)
        \/ TViolationsCapture(t)
        \/ TReturn(t)

ConcSpec == Init /\ [][ConcNext]_vars

----------------------------------------------------------------------------
(* Properties *)

Ok(v) == [panic |-> FALSE, val |-> v]

\* the kind a constructor call is to give its error
KindOf(c) ==
    CASE c.op = "Wrap" -> "INTERNAL_SERVER_ERROR"
      [] c.op = "DefaultError" -> "INTERNAL_SERVER_ERROR"
      [] c.op = "Violations" -> "UNPROCESSABLE_ENTITY"
      [] OTHER -> c.kind

\* C1: when the target is a structured Error, e.Is(target) is true exactly
\* when the two errors were built with the same kind, whatever their codes,
\* messages, violations and causes, and whichever constructor built them.
C1_IsComparesKindOnly ==
    \A a \in DOMAIN heap, b \in DOMAIN heap :
        Is(heap, a, ErrorPtr(b)) = Ok(KindOf(made[a]) = KindOf(made[b]))

\* two errors built by New with the same kind and different codes and
\* messages match, next to an error built by New of another kind that does not
C1_Witness ==
    \E a \in Fresh(heap), b \in Fresh(heap) :
        /\ made[a].op = "New" /\ made[b].op = "New"
        /\ made[a].kind = made[b].kind
        /\ made[a].code # made[b].code /\ made[a].message # made[b].message
        /\ Is(heap, a, ErrorPtr(b)).val

\* c.Error() of an error value c
ErrorText(h, c) ==
    IF c.dyn = "*Error" THEN Error(h, c.ref).str ELSE OpaqueText(c)

\* C2: Wrap(c) has kind INTERNAL_SERVER_ERROR, code 500, the message "An
\* internal server error occurred" and empty violations; Unwrap returns c
\* itself; Error returns c.Error() for a non-nil c and the message for nil.
C2_WrapKeepsCause ==
    \A a \in DOMAIN heap :
        made[a].op = "Wrap" =>
            LET c == made[a].cause
            IN  /\ heap[a].Type = "INTERNAL_SERVER_ERROR"
                /\ heap[a].Code = 500
                /\ heap[a].Message = "An internal server error occurred"
                /\ SliceLen(heap[a].Violations) = 0
                /\ Unwrap(heap, a) = [panic |-> FALSE, err |-> c]
                /\ Error(heap, a) =
                       [panic |-> FALSE,
                        str |-> IF c # NilErr THEN ErrorText(heap, c)
                                ELSE "An internal server error occurred"]

\* Wrap has just returned an error that wraps an opaque cause
C2_Witness ==
    /\ ret \in DOMAIN heap
    /\ made[ret].op = "Wrap"
    /\ made[ret].cause \in OpaqueErrors
    /\ Error(heap, ret).str = "db down"

\* C3: the error returned by Violations(issues) carries issues, the same
\* elements in the same order, with kind UNPROCESSABLE_ENTITY, code 422, the
\* message "Unprocessable entity" and no cause, in every sequence of calls.
C3_ViolationsCarriesIssues ==
    \A a \in DOMAIN heap :
        made[a].op = "Violations" =>
            /\ heap[a].Violations.elems = made[a].issues.elems
            /\ heap[a].Type = "UNPROCESSABLE_ENTITY"
            /\ heap[a].Code = 422
            /\ heap[a].Message = "Unprocessable entity"
            /\ heap[a].Err = NilErr

\* Violations has just returned an error with two issues
C3_Witness ==
    /\ ret \in DOMAIN heap
    /\ made[ret].op = "Violations"
    /\ made[ret].issues = MakeSlice(<<V1, V2>>)
    /\ heap[ret].Violations.elems = <<V1, V2>>

\* C4: the catalog variables keep, through every sequence of constructor
\* calls, the kind, code, message, empty violations, absent cause and stack
\* trace that package initialisation gave them.
C4_CatalogReadOnly ==
    build = "eager" =>
        \A i \in 1 .. Len(CatalogArgs) :
            /\ heap[i] = PackageInit[i]
            /\ heap[i].Type = CatalogArgs[i].Type
            /\ heap[i].Code = CatalogArgs[i].Code
            /\ heap[i].Message = CatalogArgs[i].Message
            /\ SliceLen(heap[i].Violations) = 0
            /\ heap[i].Err = NilErr

\* C5: no constructor call changes a field of an error that an earlier call
\* returned, and every call returns a pointer to a new struct.
C5_NeverMutated ==
    [][ /\ \A a \in DOMAIN heap : heap'[a] = heap[a]
        /\ ret' \notin DOMAIN heap ]_vars

\* the arguments of a call are found in the struct the caller received
CarriesArgs(c, e) ==
    CASE c.op = "Violations" -> e.Violations = c.issues
      [] c.op = "Wrap" -> e.Err = c.cause
      [] c.op = "New" -> e.Type = c.kind /\ e.Code = c.code /\ e.Message = c.message
      [] OTHER -> TRUE

\* C6: in every interleaving of concurrent constructor calls no call writes
\* a location another call in progress reads or writes, and every caller
\* receives an error carrying the arguments of its own call.
C6_NoRaceOwnArguments ==
    /\ ~race
    /\ \A t \in Threads :
           (th[t].pc = "idle" /\ th[t].call.op # "") => CarriesArgs(th[t].call, th[t].got)

\* C7: when the target is not a structured Error, Is returns true exactly
\* when the receiver has a cause and the cause is the very target, and false
\* when the receiver has no cause.
C7_IsMatchesCauseByIdentity ==
    \A a \in DOMAIN heap, t \in OtherTargets :
        Is(heap, a, t) = Ok(heap[a].Err # NilErr /\ heap[a].Err = t)

\* C8: New(code, message, kind) returns an error with exactly these three,
\* violations an empty sequence that is not nil and no cause, so Error()
\* returns the message and Unwrap() returns nil.
C8_NewCarriesArguments ==
    \A a \in DOMAIN heap :
        made[a].op = "New" =>
            /\ heap[a].Type = made[a].kind
            /\ heap[a].Code = made[a].code
            /\ heap[a].Message = made[a].message
            /\ heap[a].Violations = MakeSlice(<<>>)
            /\ heap[a].Err = NilErr
            /\ Error(heap, a) = [panic |-> FALSE, str |-> made[a].message]
            /\ Unwrap(heap, a) = [panic |-> FALSE, err |-> NilErr]

\* New has just returned an error to a caller
C8_Witness ==
    /\ ret \in Fresh(heap)
    /\ made[ret].op = "New"
    /\ made[ret].code = 410
    /\ Error(heap, ret).str = "Gone"

\* the keys the serialised form is to have
DocumentedKeys(obj) ==
    { [key |-> "type", field |-> "Type"], [key |-> "code", field |-> "Code"],
      [key |-> "message", field |-> "Message"] }
        \cup (IF SliceLen(obj.Violations) = 0 THEN {}
              ELSE {[key |-> "violations", field |-> "Violations"]})
        \cup (IF SliceLen(obj.StackTraces) = 0 THEN {}
              ELSE {[key |-> "stack_traces", field |-> "StackTraces"]})

\* C9: the serialised form has the keys type, code and message, the keys
\* violations and stack_traces only when their sequences are not empty, and
\* nothing of the cause.
C9_SerialisedKeys ==
    \A a \in DOMAIN heap : Marshal(heap, a) = DocumentedKeys(heap[a])

\* C10: on a nil receiver Error() returns "", Unwrap() returns nil and
\* Is(target) returns true exactly for the nil target, none of them with a
\* nil pointer dereference.
C10_NilReceiver ==
    /\ Error(heap, NilPtr) = [panic |-> FALSE, str |-> ""]
    /\ Unwrap(heap, NilPtr) = [panic |-> FALSE, err |-> NilErr]
    /\ \A t \in Targets(heap) : Is(heap, NilPtr, t) = Ok(t = NilErr)

\* the nil receiver matches the nil target and not an error a caller built
C10_Witness ==
    /\ ret \in Fresh(heap)
    /\ Is(heap, NilPtr, NilErr).val
    /\ ~Is(heap, NilPtr, ErrorPtr(ret)).val
    /\ ~Is(heap, NilPtr, ErrorPtr(NilPtr)).val

\* the frames a stack trace names
TraceFrames(st) == {st.elems[i].frame : i \in 1 .. SliceLen(st)}

\* the frames of a stack
StackFrames(stack) == {stack[i] : i \in 1 .. Len(stack)}

\* the frames of the package itself
PackageFrames ==
    {Frame("", "")} \cup
    {Frame("errors", fn) : fn \in {"captureStackTrace", "New", "Wrap", "Violations",
                                   "DefaultError"}}

\* C11: the stack trace of the error that New, Wrap, Violations or
\* DefaultError returns is the snapshot of the stack of the caller of that
\* very call: it names the calling site and no frame of another stack, such
\* as the stack of package initialisation or of an earlier call.
C11_TraceOfOwnCall ==
    \A a \in DOMAIN heap :
        (a = ret /\ made[a].op \in {"New", "Wrap", "Violations", "DefaultError"}) =>
            /\ Head(made[a].caller) \in TraceFrames(heap[a].StackTraces)
            /\ TraceFrames(heap[a].StackTraces)
                   \subseteq StackFrames(made[a].caller) \cup PackageFrames

\* C12: on a receiver that is not nil, Is returns without a panic for every
\* target: the nil interface, an Error, a nil *Error held in the interface
\* and an opaque error; for the nil interface and the nil *Error it returns
\* false.
C12_IsTotal ==
    \A a \in DOMAIN heap, t \in Targets(heap) :
        /\ ~Is(heap, a, t).panic
        /\ t \in {NilErr, ErrorPtr(NilPtr)} => ~Is(heap, a, t).val

====
